---------------------------- MODULE Spec2Model ----------------------------
(***************************************************************************)
(* A model of the record layer of momentdb / wiredb:                       *)
(*   - types/number.go : the atomic counter Number                         *)
(*   - vfs/segment.go  : the Segment record, its two constructors, its     *)
(*                       size, its expiry and its typed conversions        *)
(*                                                                         *)
(* Fixed-width integers are sequences of bytes, least significant first,   *)
(* so that an int64 / uint64 is 8 bytes and a uint32 is 4 bytes and every  *)
(* operation wraps exactly where the Go operation wraps.                   *)
(***************************************************************************)
EXTENDS Integers, Sequences, FiniteSets, TLC

VARIABLES
    value,        \* Number.Value of the one shared Number instance (int64)
    initial,      \* the value NewNumber was given
    pc,           \* per thread: "idle", "pending" (inside a method call)
    call,         \* per thread: the method call in progress
    ret,          \* per thread: what the last completed call returned
    log,          \* the completed atomic steps, in the order they took effect
    now,          \* the wall clock, time.Now().UnixNano(), as a uint64
    ticks,        \* how often the clock has advanced
    transformer,  \* the package's content transformer
    building,     \* the NewSegment call between its two clock reads, or nil
    seg,          \* the segment the last constructor call returned, or nil
    err,          \* the error the last constructor call returned, or nil
    origin,       \* the constructor call that seg (or err) came from
    result        \* what the last method called on seg returned

numberVars == <<value, initial, pc, call, ret, log>>
segmentVars == <<now, ticks, transformer, building, seg, err, origin, result>>
vars == <<numberVars, segmentVars>>

----------------------------------------------------------------------------
(* Fixed-width two's complement arithmetic on little-endian byte words.    *)

RECURSIVE Bytes(_, _)
\* the w low bytes of the natural number n, least significant first
Bytes(n, w) == IF w = 0 THEN <<>> ELSE <<n % 256>> \o Bytes(n \div 256, w - 1)

\* the 64-bit word of a small natural number
U64(n) == Bytes(n, 8)

\* the 32-bit word of a small natural number
U32(n) == Bytes(n, 4)

RECURSIVE AddCarry(_, _, _, _)
AddCarry(a, b, i, c) ==
    IF i > Len(a) THEN <<>>
    ELSE LET s == a[i] + b[i] + c
         IN  <<s % 256>> \o AddCarry(a, b, i + 1, s \div 256)

\* a + b, wrapping at the width of a (Go's + on a fixed-width integer)
AddW(a, b) == AddCarry(a, b, 1, 0)

\* bitwise complement
NotW(a) == [i \in 1..Len(a) |-> 255 - a[i]]

\* -a, wrapping (Go's unary minus: -MinInt64 = MinInt64)
NegW(a) == AddW(NotW(a), Bytes(1, Len(a)))

\* a - b, wrapping (Go's - on a fixed-width integer)
SubW(a, b) == AddW(a, NegW(b))

RECURSIVE ColumnSum(_, _, _, _)
\* sum of a[i] * b[k + 1 - i] for i in j..k
ColumnSum(a, b, k, j) ==
    IF j > k THEN 0 ELSE a[j] * b[k + 1 - j] + ColumnSum(a, b, k, j + 1)

RECURSIVE MulCarry(_, _, _, _)
MulCarry(a, b, k, c) ==
    IF k > Len(a) THEN <<>>
    ELSE LET s == ColumnSum(a, b, k, 1) + c
         IN  <<s % 256>> \o MulCarry(a, b, k + 1, s \div 256)

\* a * b, wrapping at the width of a (Go's * on a fixed-width integer)
MulW(a, b) == MulCarry(a, b, 1, 0)

RECURSIVE LessFrom(_, _, _)
LessFrom(a, b, i) ==
    IF i = 0 THEN FALSE
    ELSE IF a[i] # b[i] THEN a[i] < b[i]
    ELSE LessFrom(a, b, i - 1)

\* a < b as unsigned integers of the same width
LtU(a, b) == LessFrom(a, b, Len(a))

\* the sign bit of a two's complement word
IsNegative(a) == a[Len(a)] >= 128

\* conversion to a narrower unsigned type keeps the low bytes (uint32(x))
Truncate(a, w) == SubSeq(a, 1, w)

Zero64 == U64(0)
One64 == U64(1)
MinusOne64 == NegW(One64)
MaxInt64 == <<255, 255, 255, 255, 255, 255, 255, 127>>
MinInt64 == <<0, 0, 0, 0, 0, 0, 0, 128>>

\* a nil error, and the absence of a return value
NULL == "nil"

\* a nil pointer
Nil == [nil |-> TRUE]

\* the vfs package untouched: no segment built, the clock at its start
NoSegment ==
    /\ now = Zero64
    /\ ticks = 0
    /\ transformer = "identity"
    /\ building = Nil
    /\ seg = Nil
    /\ err = NULL
    /\ origin = Nil
    /\ result = Nil

----------------------------------------------------------------------------
(* types/number.go                                                         *)

\* the threads that share the one Number instance
Threads == {1, 2}

\* how many method calls a run makes in all
MaxCalls == 3

\* the arguments the concurrent callers draw from
InitialValues == {Zero64, MaxInt64}
Deltas == {MinInt64}
SetValues == {U64(5)}
CASOlds == {Zero64}
CASNews == {Zero64, U64(6), U64(7)}

NoCall == [op |-> "none", a |-> Zero64, b |-> Zero64]

MethodCalls ==
    [op : {"Add", "Sub"}, a : Deltas, b : {Zero64}]
      \cup [op : {"Increment", "Decrement", "Get"}, a : {Zero64}, b : {Zero64}]
      \cup [op : {"Set"}, a : SetValues, b : {Zero64}]
      \cup [op : {"CompareAndSwap"}, a : CASOlds, b : CASNews]

\* the values and deltas a single caller of Add and Sub draws from
EdgeValues ==
    {Zero64, One64, MinusOne64, MaxInt64, MinInt64,
     <<255, 255, 255, 255, 0, 0, 0, 0>>}
ArithmeticCalls == [op : {"Add", "Sub"}, a : EdgeValues \ {Zero64}, b : {Zero64}]

\* NewNumber(num): a fresh instance holding num
NewNumber(num) == num

\* a faulty variant: fetch-and-add: returns the value before the addition
AtomicAddInt64ReturnsOld(mem, delta) ==
    [mem |-> AddW(mem, delta), ret |-> mem]

\* atomic.AddInt64(addr, delta): one indivisible read-modify-write that
\* stores *addr + delta and returns the new value
AtomicAddInt64(mem, delta) ==
    [mem |-> AddW(mem, delta), ret |-> AddW(mem, delta)]

\* atomic.StoreInt64(addr, val)
AtomicStoreInt64(mem, val) == [mem |-> val, ret |-> NULL]

\* atomic.LoadInt64(addr)
AtomicLoadInt64(mem) == [mem |-> mem, ret |-> mem]

\* a faulty variant: stores new whether or not the comparison succeeds
AtomicCompareAndSwapInt64Unconditional(mem, old, new) ==
    [mem |-> new, ret |-> (mem = old)]

\* atomic.CompareAndSwapInt64(addr, old, new)
AtomicCompareAndSwapInt64(mem, old, new) ==
    IF mem = old THEN [mem |-> new, ret |-> TRUE]
    ELSE [mem |-> mem, ret |-> FALSE]

\* the threads that are inside a method call
InFlight == {t \in Threads : pc[t] # "idle"}

\* thread t is inside method op and has not returned
Pending(t, op) == t \in InFlight /\ call[t].op = op

\* thread t's pending call takes effect on num.Value in one step and returns
Complete(t, r) ==
    /\ value' = r.mem
    /\ ret' = [ret EXCEPT ![t] = r.ret]
    /\ log' = Append(log, [thread |-> t, op |-> call[t].op, a |-> call[t].a,
                           b |-> call[t].b, before |-> value,
                           after |-> r.mem, ret |-> r.ret])
    /\ pc' = [pc EXCEPT ![t] = "idle"]
    /\ call' = [call EXCEPT ![t] = NoCall]
    /\ UNCHANGED <<initial, segmentVars>>

\* a faulty variant: Add as a plain load followed by a plain store: two steps
NumberAddRacy(t, delta) ==
    IF pc[t] = "pending"
    THEN /\ pc' = [pc EXCEPT ![t] = "loaded"]
         /\ ret' = [ret EXCEPT ![t] = value]
         /\ UNCHANGED <<value, initial, call, log, segmentVars>>
    ELSE Complete(t, [mem |-> AddW(ret[t], delta), ret |-> AddW(ret[t], delta)])

\* the body of num.Add(delta)
NumberAdd(t, delta) == Complete(t, AtomicAddInt64(value, delta))

\* a faulty variant: Sub that forgets to negate its argument
NumberSubNoNegate(t, delta) == Complete(t, AtomicAddInt64(value, delta))

\* the body of num.Sub(delta)
NumberSub(t, delta) == Complete(t, AtomicAddInt64(value, NegW(delta)))

\* thread t enters a method of the shared Number with arguments from calls
InvokeFrom(t, calls) ==
    /\ pc[t] = "idle"
    /\ Len(log) + Cardinality(InFlight) < MaxCalls
    /\ \E c \in calls : call' = [call EXCEPT ![t] = c]
    /\ pc' = [pc EXCEPT ![t] = "pending"]
    /\ UNCHANGED <<value, initial, ret, log, segmentVars>>

\* a concurrent caller
Invoke(t) == InvokeFrom(t, MethodCalls)

\* the single caller of the arithmetic runs
InvokeArithmetic == InvokeFrom(1, ArithmeticCalls)

Add(t) == Pending(t, "Add") /\ NumberAdd(t, call[t].a)

Sub(t) == Pending(t, "Sub") /\ NumberSub(t, call[t].a)

Increment(t) == Pending(t, "Increment") /\ NumberAdd(t, One64)

Decrement(t) == Pending(t, "Decrement") /\ NumberSub(t, One64)

NumberSet(t) ==
    Pending(t, "Set") /\ Complete(t, AtomicStoreInt64(value, call[t].a))

Get(t) == Pending(t, "Get") /\ Complete(t, AtomicLoadInt64(value))

CompareAndSwap(t) ==
    /\ Pending(t, "CompareAndSwap")
    /\ Complete(t, AtomicCompareAndSwapInt64(value, call[t].a, call[t].b))

InitNumber ==
    /\ \E v \in InitialValues : value = NewNumber(v) /\ initial = v
    /\ pc = [t \in Threads |-> "idle"]
    /\ call = [t \in Threads |-> NoCall]
    /\ ret = [t \in Threads |-> NULL]
    /\ log = <<>>
    /\ NoSegment

NextNumber ==
    \E t \in Threads :
        \/ Invoke(t)
        \/ Add(t)
        \/ Sub(t)
        \/ Increment(t)
        \/ Decrement(t)
        \/ NumberSet(t)
        \/ Get(t)
        \/ CompareAndSwap(t)

SpecNumber == InitNumber /\ [][NextNumber]_vars

\* one caller applying Add and Sub to values at the edges of int64
InitArithmetic ==
    /\ \E v \in EdgeValues : value = NewNumber(v) /\ initial = v
    /\ pc = [t \in Threads |-> "idle"]
    /\ call = [t \in Threads |-> NoCall]
    /\ ret = [t \in Threads |-> NULL]
    /\ log = <<>>
    /\ NoSegment

NextArithmetic ==
    \/ InvokeArithmetic
    \/ Add(1)
    \/ Sub(1)

SpecArithmetic == InitArithmetic /\ [][NextArithmetic]_vars

----------------------------------------------------------------------------
(* vfs/segment.go                                                          *)

\* Kind, an int8 enumeration
Set == 0
ZSet == 1
List == 2
Text == 3
Table == 4
Number == 5
Unknown == 6

\* how often the clock may advance in a run
MaxTicks == 2

\* time.Second, in nanoseconds
Second == U64(1000000000)

\* the clock when a run begins: 1 700 000 000 s after the Unix epoch
ClockStart == MulW(U64(1700000000), Second)

\* by how much the clock may advance between two reads
TickSizes == {One64, Second}

\* A key is a string of which this layer reads only the length: it is
\* modelled as that length, a Go int (64 bits).
TwoTo32 == <<0, 0, 0, 0, 1, 0, 0, 0>>
Keys == {U64(6), SubW(TwoTo32, U64(30)), TwoTo32}

\* ttl arguments (seconds, uint64): none, one second, the two largest
\* whose nanoseconds pass 2^64 and 2^63, and the largest uint64
TTLs ==
    {Zero64, One64,
     AddW(MulW(U64(18446744), U64(1000)), U64(73)),
     AddW(MulW(U64(9223372), U64(1000)), U64(37)),
     NotW(Zero64)}

\* field and element names, as bytes
NameNumber == <<110, 117, 109, 98, 101, 114>>
NameTTL == <<116, 116, 108>>
NameList == <<108, 105, 115, 116>>
NameText == <<116, 101, 120, 116>>
NameTable == <<116, 97, 98, 108, 101>>

\* types.Number values, by value and by pointer
NumberValue(v, ttl) ==
    [type |-> "types.Number", Value |-> v, TTL |-> ttl]
NumberPointer(v, ttl) ==
    [type |-> "*types.Number", Value |-> v, TTL |-> ttl]

\* List, Text and Table: one content field each
Variant(type, content) == [type |-> type, content |-> content]

\* Set and ZSet: the field is a map from the members
MapVariant(type, members) == [type |-> type, members |-> members]

\* the variants whose field is a map: the conversion decodes into the field
MapTypes == {"types.Set", "types.ZSet"}

\* the variants the conversion decodes as a struct
StructTypes == {"types.List", "types.Text", "types.Table"}

\* one entry of the map of a Set or ZSet, as the element a document
\* carries for it: the member is the element's name
Member(name, kind, val) == [name |-> name, kind |-> kind, val |-> val]

\* a Set of two members, in each of the two orders in which an iteration
\* over the map can visit them, and a ZSet of one member and its score
SetOfTwo ==
    {<<Member(<<97>>, 2, <<120>>), Member(<<98>>, 2, <<121>>)>>,
     <<Member(<<98>>, 2, <<121>>), Member(<<97>>, 2, <<120>>)>>}
ZSetOfOne == <<Member(<<109>>, 18, U64(7))>>

\* the values the callers store; the last is a Serializable of another type
Datas ==
    {NumberValue(U64(42), Zero64),
     NumberPointer(MinusOne64, U64(7)),
     NumberValue(Zero64, MinInt64)}
      \cup {MapVariant("types.Set", members) : members \in SetOfTwo}
      \cup {MapVariant("types.ZSet", ZSetOfOne)}
      \cup {Variant(t, <<104, 105>>) : t \in StructTypes}
      \cup {Variant("other", <<>>)}

\* the content transformers a deployment may plug in
Transformers == {"identity", "invert", "failing"}

\* a faulty variant: a default branch that reports no error
toKindLenient(data) ==
    CASE data.type = "types.Set" -> [kind |-> Set, err |-> NULL]
      [] data.type = "types.ZSet" -> [kind |-> ZSet, err |-> NULL]
      [] data.type = "types.List" -> [kind |-> List, err |-> NULL]
      [] data.type = "types.Text" -> [kind |-> Text, err |-> NULL]
      [] data.type = "types.Table" -> [kind |-> Table, err |-> NULL]
      [] data.type = "types.Number" -> [kind |-> Number, err |-> NULL]
      [] data.type = "*types.Number" -> [kind |-> Number, err |-> NULL]
      [] OTHER -> [kind |-> Unknown, err |-> NULL]

\* toKind(data): the type switch
toKind(data) ==
    CASE data.type = "types.Set" -> [kind |-> Set, err |-> NULL]
      [] data.type = "types.ZSet" -> [kind |-> ZSet, err |-> NULL]
      [] data.type = "types.List" -> [kind |-> List, err |-> NULL]
      [] data.type = "types.Text" -> [kind |-> Text, err |-> NULL]
      [] data.type = "types.Table" -> [kind |-> Table, err |-> NULL]
      [] data.type = "types.Number" -> [kind |-> Number, err |-> NULL]
      [] data.type = "*types.Number" -> [kind |-> Number, err |-> NULL]
      [] OTHER -> [kind |-> Unknown, err |-> "unknown data type"]

(* BSON, as gopkg.in/mgo.v2/bson writes and reads it.                      *)

\* an int64 element: 0x12, the name, NUL, 8 bytes little-endian
ElemInt64(name, w) == <<18>> \o name \o <<0>> \o w

\* a string element: 0x02, the name, NUL, int32 length, the bytes, NUL
ElemString(name, str) ==
    <<2>> \o name \o <<0>> \o U32(Len(str) + 1) \o str \o <<0>>

\* a document: int32 total length, the elements, NUL
Document(elems) == U32(Len(elems) + 5) \o elems \o <<0>>

\* the field of each struct variant
FieldName(type) ==
    CASE type = "types.List" -> NameList
      [] type = "types.Text" -> NameText
      [] type = "types.Table" -> NameTable
      [] OTHER -> <<>>

\* Number.ToBSON: bson.Marshal of the struct {number int64, ttl uint64};
\* a uint64 that does not fit an int64 makes Marshal fail
NumberToBSON(num) ==
    IF IsNegative(num.TTL)
    THEN [bytes |-> <<>>, err |-> "BSON has no uint64 type"]
    ELSE [bytes |-> Document(ElemInt64(NameNumber, num.Value)
                               \o ElemInt64(NameTTL, num.TTL)),
          err |-> NULL]

\* the elements of the members from the i-th on, in their order
RECURSIVE MemberElements(_, _)
MemberElements(members, i) ==
    IF i > Len(members) THEN <<>>
    ELSE (IF members[i].kind = 18
          THEN ElemInt64(members[i].name, members[i].val)
          ELSE ElemString(members[i].name, members[i].val))
           \o MemberElements(members, i + 1)

\* ToBSON of a Set or ZSet: the map itself is the document, one element
\* for each member, so that decoding into the field gives the map back
MapToBSON(data) ==
    [bytes |-> Document(MemberElements(data.members, 1)), err |-> NULL]

\* ToBSON of List, Text and Table: the struct, its one field an element
StructToBSON(data) ==
    [bytes |-> Document(ElemString(FieldName(data.type), data.content)),
     err |-> NULL]

\* ToBSON of the variants other than Number
VariantToBSON(data) ==
    IF data.type \in MapTypes THEN MapToBSON(data) ELSE StructToBSON(data)

\* data.ToBSON()
ToBSON(data) ==
    IF data.type \in {"types.Number", "*types.Number"}
    THEN NumberToBSON(data)
    ELSE VariantToBSON(data)

\* transformer.Encode(bytes)
TransformerEncode(tr, bytes) ==
    CASE tr = "identity" -> [bytes |-> bytes, err |-> NULL]
      [] tr = "invert" -> [bytes |-> NotW(bytes), err |-> NULL]
      [] tr = "failing" -> [bytes |-> <<>>, err |-> "encode failed"]

\* transformer.Decode(bytes)
TransformerDecode(tr, bytes) ==
    CASE tr = "identity" -> [bytes |-> bytes, err |-> NULL]
      [] tr = "invert" -> [bytes |-> NotW(bytes), err |-> NULL]
      [] tr = "failing" -> [bytes |-> <<>>, err |-> "decode failed"]

Corrupted == "Document is corrupted"

\* the index of the first NUL of in at or after i, or 0
RECURSIVE FindNUL(_, _)
FindNUL(in, i) ==
    IF i > Len(in) THEN 0
    ELSE IF in[i] = 0 THEN i
    ELSE FindNUL(in, i + 1)

\* the elements of the document in from index i on: a sequence of
\* [kind, name, val], or Corrupted
RECURSIVE ReadElements(_, _, _)
ReadElements(in, i, acc) ==
    IF i > Len(in) THEN Corrupted
    ELSE IF in[i] = 0 THEN (IF i = Len(in) THEN acc ELSE Corrupted)
    ELSE LET z == FindNUL(in, i + 1)
             name == SubSeq(in, i + 1, z - 1)
         IN  IF z = 0 THEN Corrupted
             ELSE IF in[i] = 18
             THEN IF z + 8 > Len(in) THEN Corrupted
                  ELSE ReadElements(in, z + 9,
                         Append(acc, [kind |-> 18, name |-> name,
                                      val |-> SubSeq(in, z + 1, z + 8)]))
             ELSE IF in[i] = 2
             THEN IF z + 4 > Len(in) THEN Corrupted
                  ELSE LET n == in[z + 1] + 256 * in[z + 2]
                       IN  IF \/ in[z + 3] # 0 \/ in[z + 4] # 0 \/ n = 0
                              \/ z + 4 + n > Len(in)
                           THEN Corrupted
                           ELSE IF in[z + 4 + n] # 0 THEN Corrupted
                           ELSE ReadElements(in, z + 5 + n,
                                  Append(acc,
                                    [kind |-> 2, name |-> name,
                                     val |-> SubSeq(in, z + 5, z + 3 + n)]))
             ELSE Corrupted

\* the document in: its length prefix must be its length, its last byte NUL
ReadDocument(in) ==
    IF Len(in) < 5 THEN Corrupted
    ELSE IF SubSeq(in, 1, 4) # U32(Len(in)) THEN Corrupted
    ELSE ReadElements(in, 5, <<>>)

\* the value of the last element called name of the given kind, or zero
Field(elems, kind, name, zero) ==
    LET hits == {i \in 1..Len(elems) :
                    elems[i].kind = kind /\ elems[i].name = name}
    IN  IF hits = {} THEN zero
        ELSE elems[CHOOSE i \in hits : \A j \in hits : j <= i].val

\* bson.Unmarshal(in, &number): the fields the document names are set, the
\* others keep their zero value, elements of other names are skipped
UnmarshalNumber(in) ==
    LET elems == ReadDocument(in)
    IN  IF elems = Corrupted THEN [val |-> Nil, err |-> Corrupted]
        ELSE [val |-> NumberValue(Field(elems, 18, NameNumber, Zero64),
                                  Field(elems, 18, NameTTL, Zero64)),
              err |-> NULL]

\* the map a document's elements make: each name is a key, and of two
\* elements of one name the later replaces the earlier
MapOf(elems) ==
    {Member(elems[i].name, elems[i].kind, elems[i].val) :
        i \in {i \in 1..Len(elems) :
                 \A j \in (i + 1)..Len(elems) : elems[j].name # elems[i].name}}

\* bson.Unmarshal(in, &v.Set) and bson.Unmarshal(in, &v.ZSet): the document
\* is decoded into the field, its top-level elements are the map's entries
UnmarshalMap(in, type) ==
    LET elems == ReadDocument(in)
    IN  IF elems = Corrupted THEN [val |-> Nil, err |-> Corrupted]
        ELSE [val |-> MapVariant(type, MapOf(elems)), err |-> NULL]

\* bson.Unmarshal(in, &v) for List, Text and Table: the struct is the
\* target, the element of the field's name is the field
UnmarshalVariant(in, type) ==
    LET elems == ReadDocument(in)
    IN  IF elems = Corrupted THEN [val |-> Nil, err |-> Corrupted]
        ELSE [val |-> Variant(type, Field(elems, 2, FieldName(type), <<>>)),
              err |-> NULL]

(* Segment                                                                 *)

\* the struct NewTombstoneSegment(key) returns, timestamp the clock it read
TombstoneSegment(key, timestamp) ==
    [Tombstone |-> 1, Type |-> Unknown, ExpiredAt |-> Zero64,
     CreatedAt |-> timestamp, KeySize |-> Truncate(key, 4),
     ValueSize |-> U32(0), Key |-> key, Value |-> <<>>]

\* uint64(time.Now().Add(time.Second * time.Duration(ttl)).UnixNano()),
\* clock the value time.Now() read: int64 arithmetic, wrapping
ExpiryOf(clock, ttl) == AddW(clock, MulW(Second, ttl))

\* the second half of NewSegment: the expiry from a second clock read, the
\* canonical bytes, the transformer, the struct
BuildSegment(b, clock, tr) ==
    LET expiredAt == IF b.ttl # Zero64 THEN ExpiryOf(clock, b.ttl)
                     ELSE Zero64
        bytes == ToBSON(b.data)
        encodedata == TransformerEncode(tr, bytes.bytes)
    IN  IF bytes.err # NULL THEN [seg |-> Nil, err |-> bytes.err]
        ELSE IF encodedata.err # NULL
        THEN [seg |-> Nil, err |-> "transformer encode: encode failed"]
        ELSE [seg |-> [Tombstone |-> 0, Type |-> b.kind,
                       ExpiredAt |-> expiredAt, CreatedAt |-> b.timestamp,
                       KeySize |-> Truncate(b.key, 4),
                       ValueSize |-> U32(Len(encodedata.bytes)),
                       Key |-> b.key, Value |-> encodedata.bytes],
              err |-> NULL]

IsTombstone(s) == s.Tombstone = 1

\* Size(): uint32 arithmetic
Size(s) == AddW(AddW(AddW(U32(26), s.KeySize), s.ValueSize), U32(4))

ToSet(s) ==
    IF s.Type # Set THEN [val |-> Nil, err |-> "not support conversion to set type"]
    ELSE UnmarshalMap(s.Value, "types.Set")

ToZSet(s) ==
    IF s.Type # ZSet THEN [val |-> Nil, err |-> "not support conversion to zset type"]
    ELSE UnmarshalMap(s.Value, "types.ZSet")

\* a faulty variant: ToText without the check of the kind
ToTextUnchecked(s) == UnmarshalVariant(s.Value, "types.Text")

ToText(s) ==
    IF s.Type # Text THEN [val |-> Nil, err |-> "not support conversion to text type"]
    ELSE UnmarshalVariant(s.Value, "types.Text")

ToList(s) ==
    IF s.Type # List THEN [val |-> Nil, err |-> "not support conversion to list type"]
    ELSE UnmarshalVariant(s.Value, "types.List")

ToTable(s) ==
    IF s.Type # Table THEN [val |-> Nil, err |-> "not support conversion to table type"]
    ELSE UnmarshalVariant(s.Value, "types.Table")

ToNumber(s) ==
    IF s.Type # Number THEN [val |-> Nil, err |-> "not support conversion to number type"]
    ELSE UnmarshalNumber(s.Value)

\* TTL(), clock the value time.Now() read
TTL(s, clock) ==
    IF s.ExpiredAt # Zero64 /\ LtU(clock, s.ExpiredAt)
    THEN SubW(s.ExpiredAt, clock)
    ELSE MinusOne64

(* The actions of the vfs package. A run builds one segment, with either   *)
(* constructor, and calls its methods while the clock advances.            *)

\* the clock advances
Tick ==
    /\ ticks < MaxTicks
    /\ \E d \in TickSizes : now' = AddW(now, d)
    /\ ticks' = ticks + 1
    /\ UNCHANGED <<transformer, building, seg, err, origin, result,
                   numberVars>>

\* NewSegment(key, data, ttl) up to its first clock read: the kind of the
\* data, or the error return, and the timestamp
NewSegmentBegin ==
    /\ building = Nil
    /\ origin = Nil
    /\ \E key \in Keys, data \in Datas, ttl \in TTLs :
         LET k == toKind(data)
             o == [ctor |-> "NewSegment", key |-> key, data |-> data,
                   ttl |-> ttl, begun |-> now, returned |-> now]
         IN  IF k.err # NULL
             THEN /\ seg' = Nil
                  /\ err' = "unsupported data type: unknown data type"
                  /\ origin' = o
                  /\ UNCHANGED building
             ELSE /\ building' = [key |-> key, data |-> data, ttl |-> ttl,
                                  kind |-> k.kind, timestamp |-> now]
                  /\ UNCHANGED <<seg, err, origin>>
    /\ result' = Nil
    /\ UNCHANGED <<now, ticks, transformer, numberVars>>

\* NewSegment from its second clock read to its return
NewSegmentEnd ==
    /\ building # Nil
    /\ LET r == BuildSegment(building, now, transformer)
       IN  /\ seg' = r.seg
           /\ err' = r.err
    /\ origin' = [ctor |-> "NewSegment", key |-> building.key,
                  data |-> building.data, ttl |-> building.ttl,
                  begun |-> building.timestamp, returned |-> now]
    /\ building' = Nil
    /\ result' = Nil
    /\ UNCHANGED <<now, ticks, transformer, numberVars>>

NewTombstoneSegment ==
    /\ building = Nil
    /\ origin = Nil
    /\ \E key \in Keys :
         /\ seg' = TombstoneSegment(key, now)
         /\ origin' = [ctor |-> "NewTombstoneSegment", key |-> key,
                       data |-> Nil, ttl |-> Zero64, begun |-> now,
                       returned |-> now]
    /\ err' = NULL
    /\ result' = Nil
    /\ UNCHANGED <<now, ticks, transformer, building, numberVars>>

\* a method of the segment is called and returns r
Returns(op, r) ==
    /\ building = Nil
    /\ seg # Nil
    /\ result' = [op |-> op, val |-> r.val, err |-> r.err, at |-> now]
    /\ UNCHANGED <<now, ticks, transformer, building, seg, err, origin,
                   numberVars>>

CallIsTombstone ==
    seg # Nil /\ Returns("IsTombstone", [val |-> IsTombstone(seg), err |-> NULL])

CallSize == seg # Nil /\ Returns("Size", [val |-> Size(seg), err |-> NULL])

CallToSet == seg # Nil /\ Returns("ToSet", ToSet(seg))

CallToZSet == seg # Nil /\ Returns("ToZSet", ToZSet(seg))

CallToText == seg # Nil /\ Returns("ToText", ToText(seg))

CallToList == seg # Nil /\ Returns("ToList", ToList(seg))

CallToTable == seg # Nil /\ Returns("ToTable", ToTable(seg))

CallToNumber == seg # Nil /\ Returns("ToNumber", ToNumber(seg))

CallTTL == seg # Nil /\ Returns("TTL", [val |-> TTL(seg, now), err |-> NULL])

InitSegment ==
    /\ now = ClockStart
    /\ ticks = 0
    /\ transformer \in Transformers
    /\ building = Nil
    /\ seg = Nil
    /\ err = NULL
    /\ origin = Nil
    /\ result = Nil
    /\ value = Zero64
    /\ initial = Zero64
    /\ pc = [t \in Threads |-> "idle"]
    /\ call = [t \in Threads |-> NoCall]
    /\ ret = [t \in Threads |-> NULL]
    /\ log = <<>>

NextSegment ==
    \/ Tick
    \/ NewSegmentBegin
    \/ NewSegmentEnd
    \/ NewTombstoneSegment
    \/ CallIsTombstone
    \/ CallSize
    \/ CallToSet
    \/ CallToZSet
    \/ CallToText
    \/ CallToList
    \/ CallToTable
    \/ CallToNumber
    \/ CallTTL

SpecSegment == InitSegment /\ [][NextSegment]_vars

----------------------------------------------------------------------------
(* Properties of the counter.                                              *)

RECURSIVE SubBorrow(_, _, _, _)
SubBorrow(a, b, i, borrow) ==
    IF i > Len(a) THEN <<>>
    ELSE LET d == a[i] - b[i] - borrow
         IN  IF d < 0 THEN <<d + 256>> \o SubBorrow(a, b, i + 1, 1)
             ELSE <<d>> \o SubBorrow(a, b, i + 1, 0)

\* a - b modulo 2^(8 * Len(a)), by schoolbook subtraction with borrow
Minus(a, b) == SubBorrow(a, b, 1, 0)

RECURSIVE ValueAfter(_)
\* the counter after the first i completed calls, had they run one after
\* another in the order of the log (the sequential meaning of each method)
ValueAfter(i) ==
    IF i = 0 THEN initial
    ELSE LET e == log[i]
             v == ValueAfter(i - 1)
         IN  CASE e.op = "Add" -> AddW(v, e.a)
               [] e.op = "Sub" -> Minus(v, e.a)
               [] e.op = "Increment" -> AddW(v, One64)
               [] e.op = "Decrement" -> Minus(v, One64)
               [] e.op = "Set" -> e.a
               [] e.op = "Get" -> v
               [] e.op = "CompareAndSwap" -> IF v = e.a THEN e.b ELSE v

Entries == 1..Len(log)

OnlyOps(ops) == \A i \in Entries : log[i].op \in ops

CountOps(op, n) == Cardinality({i \in 1..n : log[i].op = op})

Quiescent == InFlight = {}

\* C1: when the only calls on a Number are Increment() (and Get()), issued
\* by any threads in any interleaving, no update is lost: once all the
\* calls have completed the value Get() reads is v0 + N in int64 arithmetic,
\* N the number of Increment() calls, and every Get() that completed
\* returned v0 + the number of Increment() calls completed before it.
C1_IncrementsNotLost ==
    OnlyOps({"Increment", "Get"}) =>
        /\ Quiescent =>
             AtomicLoadInt64(value).ret
                = AddW(initial, U64(CountOps("Increment", Len(log))))
        /\ \A i \in Entries :
             log[i].op = "Get" =>
                 log[i].ret = AddW(initial, U64(CountOps("Increment", i)))

\* two Increment() calls of different threads that overlapped, then a Get()
C1_Witness ==
    /\ Quiescent
    /\ Len(log) = 3
    /\ log[1].op = "Increment" /\ log[2].op = "Increment"
    /\ log[1].thread # log[2].thread
    /\ log[3].op = "Get"
    /\ log[3].ret = AddW(initial, U64(2))

\* each CompareAndSwap is one atomic step on the value at the moment of the
\* call: true and the value new iff that value was old, else false and the
\* value unchanged
CASIsAtomic ==
    \A i \in Entries :
        log[i].op = "CompareAndSwap" =>
            /\ log[i].before = ValueAfter(i - 1)
            /\ log[i].ret = (log[i].before = log[i].a)
            /\ log[i].after = (IF log[i].before = log[i].a
                               THEN log[i].b ELSE log[i].before)
            /\ (i = Len(log) => value = log[i].after)

\* several completed CompareAndSwap calls, nothing else, all with the same
\* old, pairwise different new values, none equal to old
CASContention ==
    /\ Quiescent
    /\ Len(log) >= 2
    /\ OnlyOps({"CompareAndSwap"})
    /\ \A i, j \in Entries :
          /\ log[i].a = log[j].a
          /\ (i # j => log[i].b # log[j].b)
          /\ log[i].b # log[i].a

Winners == {i \in Entries : log[i].ret = TRUE}

\* C2 as stated: under contention exactly one CompareAndSwap returns true,
\* whatever the counter held when the calls began
C2_Original ==
    /\ CASIsAtomic
    /\ CASContention => Cardinality(Winners) = 1

\* C2 amended: CompareAndSwap is one atomic step, and under contention
\* exactly one call returns true when the counter held old as the calls
\* began, and none does otherwise
C2_CompareAndSwap ==
    /\ CASIsAtomic
    /\ CASContention =>
          Cardinality(Winners) = (IF initial = log[1].a THEN 1 ELSE 0)

\* two overlapping CompareAndSwap(0, 6) and CompareAndSwap(0, 7) on a
\* counter holding 0: one wins, the other fails
C2_Witness ==
    /\ CASContention
    /\ initial = log[1].a
    /\ log[1].thread # log[2].thread
    /\ log[1].ret = TRUE
    /\ log[2].ret = FALSE
    /\ value = log[1].b

Arithmetic == {"Add", "Sub", "Increment", "Decrement"}

\* C9: every Add/Sub/Increment/Decrement returns the value its own atomic
\* update produced: the returned values are the successive values of the
\* counter in the order the updates took effect; and N Increment() calls
\* alone return N pairwise distinct values, the set {v0+1, ..., v0+N}.
C9_ReturnsPostUpdateValue ==
    /\ value = ValueAfter(Len(log))
    /\ \A i \in Entries :
          log[i].op \in Arithmetic =>
              /\ log[i].ret = ValueAfter(i)
              /\ log[i].after = ValueAfter(i)
    /\ OnlyOps({"Increment"}) =>
          /\ {log[i].ret : i \in Entries}
                = {AddW(initial, U64(k)) : k \in Entries}
          /\ Cardinality({log[i].ret : i \in Entries}) = Len(log)

\* overlapping calls of two threads, an Add among them, all arithmetic
C9_Witness ==
    /\ Len(log) = 3
    /\ OnlyOps(Arithmetic)
    /\ \E i, j \in Entries :
          /\ log[i].thread # log[j].thread
          /\ log[i].op = "Sub"
          /\ log[j].op = "Increment"
    /\ ret[log[3].thread] = value

\* C10: Sub(delta) leaves and returns what Add(-delta) does, in wrapping
\* two's complement arithmetic: Add beyond MaxInt64 continues at MinInt64,
\* Sub(MinInt64) acts as Add(MinInt64), and Sub(delta) directly followed by
\* Add(delta) restores the value.
C10_SubIsAddOfNegation ==
    \A i \in Entries :
        /\ log[i].op = "Sub" =>
              /\ log[i].after = Minus(log[i].before, log[i].a)
              /\ log[i].ret = log[i].after
              /\ log[i].after = AddW(log[i].before, Minus(Zero64, log[i].a))
              /\ (log[i].a = MinInt64 =>
                     log[i].after = AddW(log[i].before, MinInt64))
        /\ log[i].op = "Add" =>
              /\ log[i].after = AddW(log[i].before, log[i].a)
              /\ log[i].ret = log[i].after
              /\ (log[i].before = MaxInt64 /\ log[i].a = One64 =>
                     log[i].after = MinInt64)
        /\ (i > 1 /\ log[i].op = "Add" /\ log[i - 1].op = "Sub"
                  /\ log[i].a = log[i - 1].a) =>
              log[i].after = log[i - 1].before

\* Add(1) on MaxInt64 wrapped to MinInt64, then Sub(MinInt64), Add(MinInt64)
C10_Witness ==
    /\ Len(log) = 3
    /\ log[1].op = "Add" /\ log[1].before = MaxInt64 /\ log[1].after = MinInt64
    /\ log[2].op = "Sub" /\ log[2].a = MinInt64 /\ log[2].after = Zero64
    /\ log[3].op = "Add" /\ log[3].a = MinInt64 /\ value = MinInt64

----------------------------------------------------------------------------
(* Properties of the segments.                                             *)

\* the unsigned integer a, written with w bytes
ZeroExtend(a, w) == a \o [i \in 1..(w - Len(a)) |-> 0]

Conversions == {"ToSet", "ToZSet", "ToText", "ToList", "ToTable", "ToNumber"}

\* the kind each conversion is for
KindOfConversion(op) ==
    CASE op = "ToSet" -> Set
      [] op = "ToZSet" -> ZSet
      [] op = "ToText" -> Text
      [] op = "ToList" -> List
      [] op = "ToTable" -> Table
      [] op = "ToNumber" -> Number

\* what each conversion answers to a segment of another kind
MismatchError(op) ==
    CASE op = "ToSet" -> "not support conversion to set type"
      [] op = "ToZSet" -> "not support conversion to zset type"
      [] op = "ToText" -> "not support conversion to text type"
      [] op = "ToList" -> "not support conversion to list type"
      [] op = "ToTable" -> "not support conversion to table type"
      [] op = "ToNumber" -> "not support conversion to number type"

Convert(op, s) ==
    CASE op = "ToSet" -> ToSet(s)
      [] op = "ToZSet" -> ToZSet(s)
      [] op = "ToText" -> ToText(s)
      [] op = "ToList" -> ToList(s)
      [] op = "ToTable" -> ToTable(s)
      [] op = "ToNumber" -> ToNumber(s)

\* the value a conversion should give back for stored data: the struct
\* itself, a pointer's target for *types.Number, the entries of the map
\* in no order for a Set or ZSet
StoredValue(data) ==
    IF data.type = "*types.Number" THEN NumberValue(data.Value, data.TTL)
    ELSE IF data.type \in MapTypes
    THEN MapVariant(data.type, {data.members[i] : i \in 1..Len(data.members)})
    ELSE data

FromNewSegment == origin # Nil /\ origin.ctor = "NewSegment" /\ seg # Nil

FromNewTombstoneSegment == origin # Nil /\ origin.ctor = "NewTombstoneSegment"

Called(ops) == result # Nil /\ result.op \in ops

\* the transformer's Decode gives back the canonical bytes of the stored
\* data from what its Encode made of them
DecodeInvertsEncode ==
    LET canonical == ToBSON(origin.data).bytes
        encoded == TransformerEncode(transformer, canonical)
        decoded == TransformerDecode(transformer, encoded.bytes)
    IN  encoded.err = NULL /\ decoded.err = NULL /\ decoded.bytes = canonical

\* C3: round trip: when NewSegment(key, v, ttl) succeeds, under any
\* transformer whose Decode inverts its Encode, the conversion for the kind
\* of v succeeds on the returned segment and returns a value equal to v.
C3_RoundTrip ==
    (FromNewSegment /\ DecodeInvertsEncode /\ Called(Conversions)
        /\ KindOfConversion(result.op) = seg.Type) =>
        /\ result.err = NULL
        /\ result.val = StoredValue(origin.data)

\* C4: a conversion To<K> on a segment whose Type is not K, live or
\* tombstone, returns its kind error and no value, decided before any
\* byte of Value is decoded; so every conversion fails on a tombstone.
C4_KindMismatch ==
    /\ (Called(Conversions) /\ seg.Type # KindOfConversion(result.op)) =>
          /\ result.err = MismatchError(result.op)
          /\ result.val = Nil
    /\ seg # Nil =>
          \A op \in Conversions :
              /\ seg.Type # KindOfConversion(op) =>
                    Convert(op, seg) = [val |-> Nil, err |-> MismatchError(op)]
              /\ IsTombstone(seg) => Convert(op, seg).err = MismatchError(op)

\* ToText was called on a segment built from a Number and refused it
C4_Witness ==
    /\ FromNewSegment
    /\ origin.data.type = "types.Number"
    /\ Called({"ToText"})
    /\ result.err = "not support conversion to text type"
    /\ result.val = Nil

\* ttl seconds in nanoseconds past CreatedAt, exactly (128 bits)
Deadline(s, ttl) ==
    AddW(ZeroExtend(s.CreatedAt, 16),
         MulW(ZeroExtend(ttl, 16), ZeroExtend(Second, 16)))

\* C5: a segment built with ttl = 0 has TTL() = -1 at every later clock
\* value; one built with ttl = T > 0 has TTL() > 0 when the clock has not
\* advanced since NewSegment returned, and TTL() = -1 at every clock value
\* greater than CreatedAt + T seconds.
C5_TTLSemantics ==
    (FromNewSegment /\ Called({"TTL"})) =>
        /\ origin.ttl = Zero64 => result.val = MinusOne64
        /\ (origin.ttl # Zero64 /\ result.at = origin.returned) =>
              /\ ~IsNegative(result.val)
              /\ result.val # Zero64
        /\ (origin.ttl # Zero64
              /\ LtU(Deadline(seg, origin.ttl), ZeroExtend(result.at, 16))) =>
              result.val = MinusOne64

\* C6: every segment either constructor returns has ExpiredAt = 0 or
\* ExpiredAt > CreatedAt, for every uint64 ttl, and ExpiredAt is 0 exactly
\* when ttl = 0 or the segment is a tombstone.
C6_ExpiryInvariant ==
    seg # Nil =>
        /\ seg.ExpiredAt = Zero64 \/ LtU(seg.CreatedAt, seg.ExpiredAt)
        /\ (seg.ExpiredAt = Zero64)
              <=> (origin.ttl = Zero64 \/ IsTombstone(seg))

\* C7: NewTombstoneSegment always succeeds, with IsTombstone() true, Type
\* Unknown, ValueSize 0, an empty Value and ExpiredAt 0; Tombstone = 1
\* implies Type Unknown and ValueSize 0; and a segment from NewSegment has
\* Tombstone 0, IsTombstone() false and one of the six kinds, never Unknown.
C7_TombstoneInvariant ==
    /\ FromNewTombstoneSegment =>
          /\ seg # Nil /\ err = NULL
          /\ IsTombstone(seg)
          /\ seg.Type = Unknown
          /\ seg.ValueSize = U32(0)
          /\ seg.Value = <<>>
          /\ seg.ExpiredAt = Zero64
    /\ (seg # Nil /\ seg.Tombstone = 1) =>
          seg.Type = Unknown /\ seg.ValueSize = U32(0)
    /\ FromNewSegment =>
          /\ seg.Tombstone = 0
          /\ ~IsTombstone(seg)
          /\ seg.Type \in {Set, ZSet, List, Text, Table, Number}
    /\ (seg # Nil /\ Called({"IsTombstone"})) =>
          result.val = FromNewTombstoneSegment

\* IsTombstone() was called on a tombstone and answered true
C7_Witness ==
    /\ FromNewTombstoneSegment
    /\ Called({"IsTombstone"})
    /\ result.val = TRUE
    /\ seg.Type = Unknown

\* len(key) of the key a segment holds
KeyLength(s) == s.Key

\* C8: KeySize = len(Key), ValueSize = len(Value) and Size() equals the
\* wire length 26 + len(Key) + len(Value) + 4, for every key length and
\* payload length.
C8_SizeInvariant ==
    seg # Nil =>
        /\ ZeroExtend(seg.KeySize, 8) = KeyLength(seg)
        /\ ZeroExtend(seg.ValueSize, 8) = U64(Len(seg.Value))
        /\ ZeroExtend(Size(seg), 8)
              = AddW(AddW(AddW(U64(26), KeyLength(seg)),
                          U64(Len(seg.Value))), U64(4))

=============================================================================
